---------------------------- MODULE Spec2Model ----------------------------
(***************************************************************************)
(* Model of the saleswise/errors package: the Nth-separator finder         *)
(* (util.go), the stack capturer and the annotated-error chain             *)
(* (DropboxBaseError and the functions that walk it).                      *)
(*                                                                         *)
(* A Go string is a sequence of one-character strings; offsets are         *)
(* 0-based as in Go, so s[i] of Go is s[i+1] here.  A call that panics     *)
(* returns [panic |-> TRUE, ...].                                          *)
(***************************************************************************)
EXTENDS Integers, Sequences, FiniteSets, TLC

VARIABLES
    nodes,      \* the DropboxBaseError objects allocated so far, by address
    heap,       \* the map[string]interface{} objects allocated so far, by address
    ret,        \* the last call on the chain and what it returned
    idxIn,      \* the arguments of the IndexNth call
    idxOut,     \* what the IndexNth call returned
    stIn,       \* the runtime's trace text and the skip of the stackTrace call
    stOut       \* what the stackTrace call returned

vars == <<nodes, heap, ret, idxIn, idxOut, stIn, stOut>>

(***************************************************************************)
(* Bounds of the model.                                                    *)
(***************************************************************************)
MaxStrLen == 4      \* length of the text searched by IndexNth
MaxSepLen == 2      \* length of the separator
MaxN == 3           \* largest occurrence count requested
MaxTraceLen == 7    \* length of the trace text given to stackTrace
MaxSkip == 2        \* largest skip given to stackTrace
MaxNodes == 3       \* errors allocated when chains are built and read
MaxStateNodes == 2  \* errors allocated when states are set and annotated
MaxMaps == 1        \* maps a caller makes
MaxRenderNodes == 2 \* errors allocated when chains are rendered
MaxRenderMaps == 1  \* maps a caller makes when chains are rendered

NL == "\n"
TAB == "\t"
SP == " "

(***************************************************************************)
(* Go's string primitives.                                                 *)
(***************************************************************************)
Min(S) == CHOOSE x \in S : \A y \in S : x <= y
Max(S) == CHOOSE x \in S : \A y \in S : x >= y

\* s[from:to] of Go
Slice(s, from, to) == SubSeq(s, from + 1, to)

\* strings.Index: offset of the first occurrence of sep in s, -1 when there
\* is none, 0 for the empty separator
StringsIndex(s, sep) ==
    LET at == {i \in 0..(Len(s) - Len(sep)) : Slice(s, i, i + Len(sep)) = sep}
    IN  IF at = {} THEN -1 ELSE Min(at)

\* strings.LastIndex
StringsLastIndex(s, sep) ==
    LET at == {i \in 0..(Len(s) - Len(sep)) : Slice(s, i, i + Len(sep)) = sep}
    IN  IF at = {} THEN -1 ELSE Max(at)

IsSpace(c) == c \in {SP, NL, TAB}

\* strings.TrimSpace
StringsTrimSpace(s) ==
    LET keep == {i \in 1..Len(s) : ~IsSpace(s[i])}
    IN  IF keep = {} THEN <<>> ELSE SubSeq(s, Min(keep), Max(keep))

RECURSIVE StringsJoin(_, _)
\* strings.Join
StringsJoin(elems, sep) ==
    IF elems = <<>> THEN <<>>
    ELSE IF Len(elems) = 1 THEN elems[1]
    ELSE elems[1] \o sep \o StringsJoin(Tail(elems), sep)

(***************************************************************************)
(* util.go: IndexNth.  The loop of the function, one iteration per         *)
(* unfolding; the slice expression s[idx+1:] panics when idx+1 > len(s).   *)
(***************************************************************************)
RECURSIVE IndexNthLoop(_, _, _, _, _, _)
IndexNthLoop(s, sep, n, idx, count, lastIdx) ==
    IF ~((count = 0 \/ idx >= 0) /\ count < n)
    THEN [panic |-> FALSE, val |-> lastIdx]
    ELSE IF idx + 1 > Len(s)
    THEN [panic |-> TRUE, val |-> 0]
    ELSE LET substrIdx == StringsIndex(Slice(s, idx + 1, Len(s)), sep)
         IN  IF substrIdx = -1 /\ count >= 1
             THEN [panic |-> FALSE, val |-> -2]
             ELSE IndexNthLoop(s, sep, n, substrIdx + idx + 1, count + 1,
                               substrIdx + idx + 1)

IndexNth(s, sep, n) == IndexNthLoop(s, sep, n, -1, 0, -1)

(***************************************************************************)
(* stackTrace.  runtime.Stack fills buf with as much of the trace as fits  *)
(* and returns the number of bytes written; the buffer is doubled until    *)
(* the trace is shorter than it.                                           *)
(***************************************************************************)
InitBufLen == 128

RuntimeStack(trace, size) == IF Len(trace) < size THEN Len(trace) ELSE size

RECURSIVE GrowBuf(_, _)
GrowBuf(trace, size) ==
    LET n == RuntimeStack(trace, size)
    IN  IF n < size THEN SubSeq(trace, 1, n) ELSE GrowBuf(trace, size * 2)

\* the closure indexNewline: the first '\n' of b at or after start, len(b)
\* when there is none
indexNewline(b, start) ==
    IF start >= Len(b) THEN Len(b)
    ELSE LET index == StringsIndex(Slice(b, start, Len(b)), <<NL>>)
         IN  IF index = -1 THEN Len(b) ELSE start + index

RECURSIVE SkipLinesOnePerLevel(_, _, _, _)
\* SkipLines advancing one line boundary per level instead of two
SkipLinesOnePerLevel(buf, index, i, skip) ==
    IF i < skip
    THEN SkipLinesOnePerLevel(buf, indexNewline(buf, index + 1), i + 1, skip)
    ELSE index

RECURSIVE SkipLines(_, _, _, _)
\* the loop "for i := 0; i < skip; i++": two lines per level
SkipLines(buf, index, i, skip) ==
    IF i < skip
    THEN SkipLines(buf, indexNewline(buf, indexNewline(buf, index + 1) + 1),
                   i + 1, skip)
    ELSE index

RECURSIVE FindEnd(_, _, _)
\* the loop "for !isDone"
FindEnd(buf, index, lastIndex) ==
    LET next == indexNewline(buf, index + 1)
    IN  IF (next - lastIndex) <= 1 THEN next ELSE FindEnd(buf, next, next)

stackTrace(trace, skip) ==
    LET buf == GrowBuf(trace, InitBufLen)
        first == indexNewline(buf, 0)
        stripped == IF first # -1 THEN Slice(buf, 0, first) ELSE <<>>
        startIndex == SkipLines(buf, first, 0, skip)
        index == FindEnd(buf, startIndex, startIndex)
    IN  IF ~(0 <= startIndex /\ startIndex <= index /\ index <= Len(buf))
        THEN [panic |-> TRUE, current |-> <<>>, context |-> <<>>]
        ELSE [panic |-> FALSE,
              current |-> stripped \o Slice(buf, startIndex, index),
              context |-> Slice(buf, index, Len(buf))]

\* StackTrace: the stack creation code is excluded from the trace
StackTraceSkip == 3
StackTrace(trace) == stackTrace(trace, StackTraceSkip)

(***************************************************************************)
(* Values of Go's error interface: nil, a *DropboxBaseError (the address   *)
(* of an element of nodes) or a foreign error that is not a DropboxError.  *)
(* Two interface values holding pointers are == exactly when they hold the *)
(* same pointer.                                                           *)
(***************************************************************************)
NilErr == [kind |-> "nil", id |-> 0]
Dbe(i) == [kind |-> "dbe", id |-> i]
ForeignErr(j) == [kind |-> "foreign", id |-> j]

\* the foreign errors of the model: 1 is a plain error, 2 a runtime.Error
ForeignIds == {1, 2}
ForeignText(j) == IF j = 1 THEN <<"x">> ELSE <<"y">>
IsRuntimeError(j) == j = 2

IsDropboxError(err) == err.kind = "dbe"

\* err.Error() of a foreign error
ForeignError(err) == ForeignText(err.id)

\* the nil map
NilMap == 0

(***************************************************************************)
(* The accessors of DropboxBaseError.                                      *)
(***************************************************************************)
NodeGetMessage(err) == nodes[err.id].Msg
GetStack(err) == nodes[err.id].Stack
GetContext(err) == nodes[err.id].Context
GetInner(err) == nodes[err.id].inner
GetState(err) == nodes[err.id].State

RECURSIVE innersFrom(_)
\* the loop of inners: err is appended when it is not nil, and the walk
\* goes on through GetInner while err is a DropboxError
innersFrom(err) ==
    (IF err # NilErr THEN <<err>> ELSE <<>>)
        \o (IF IsDropboxError(err) THEN innersFrom(GetInner(err)) ELSE <<>>)

\* inners stopping at the first inner error
innersOneLevel(e) ==
    <<e>> \o (IF GetInner(e) # NilErr THEN <<GetInner(e)>> ELSE <<>>)

inners(e) == innersFrom(e)

HasInner(e, target) ==
    \E i \in 1..Len(inners(e)) : inners(e)[i] = target

RECURSIVE GetMessageLoop(_, _)
\* the loop of GetMessage over a DropboxError
GetMessageLoop(dberr, acc) ==
    LET acc1 == Append(acc, NodeGetMessage(dberr))
        d == GetInner(dberr)
    IN  IF d = NilErr THEN acc1
        ELSE IF IsDropboxError(d) THEN GetMessageLoop(d, acc1)
        ELSE Append(acc1, ForeignError(d))

NonErrorText == <<"P", "a", "s", "s", "e", "d", " ", "a", " ", "n", "o", "n", "-", "e", "r", "r", "o", "r", " ", "t", "o", " ", "G", "e", "t", "M", "e", "s", "s", "a", "g", "e">>

RECURSIVE Reverse(_)
Reverse(q) == IF q = <<>> THEN <<>> ELSE Append(Reverse(Tail(q)), Head(q))

\* GetMessage joining the pieces innermost first
GetMessageInnerFirst(err) ==
    IF IsDropboxError(err)
    THEN StringsJoin(Reverse(GetMessageLoop(err, <<>>)), <<SP>>)
    ELSE NonErrorText

GetMessage(err) ==
    IF IsDropboxError(err)
    THEN StringsJoin(GetMessageLoop(err, <<>>), <<SP>>)
    ELSE IF err.kind = "foreign" /\ IsRuntimeError(err.id)
    THEN ForeignError(err)
    ELSE NonErrorText

(***************************************************************************)
(* map[string]interface{}: a function from its keys to values; a value is  *)
(* a string or a value encoding/json cannot encode (a channel).            *)
(***************************************************************************)
StrVal(s) == [t |-> "string", v |-> s]
ChanVal == [t |-> "chan", v |-> <<>>]

EmptyMap == [k \in {} |-> ChanVal]
MapPut(m, key, val) ==
    [k \in (DOMAIN m) \cup {key} |-> IF k = key THEN val ELSE m[k]]

\* the keys of the model in byte order, with their text
SortedKeys == <<"_location", "_message", "k">>
KeyText(key) ==
    IF key = "_location" THEN <<"_", "l", "o", "c", "a", "t", "i", "o", "n">>
    ELSE IF key = "_message" THEN <<"_", "m", "e", "s", "s", "a", "g", "e">>
    ELSE <<key>>

(***************************************************************************)
(* GetAnnotatedStates.                                                     *)
(***************************************************************************)
\* the _location of a stack: lines 161-168.  stack[:end] panics when end is
\* negative or beyond the stack.
Location(stack) ==
    LET r == IndexNth(stack, <<NL>>, 3)
        end == r.val
    IN  IF r.panic \/ (end # -1 /\ (end < 0 \/ end > Len(stack)))
        THEN [panic |-> TRUE, val |-> <<>>]
        ELSE LET cut == IF end # -1 THEN Slice(stack, 0, end) ELSE stack
                 beg == StringsLastIndex(cut, <<NL>>)
                 line == IF beg # -1 THEN Slice(cut, beg, Len(cut)) ELSE cut
             IN  [panic |-> FALSE, val |-> StringsTrimSpace(line)]

\* an element of the returned slice: the node's stored map (by address) or
\* a map made by this call, which nothing else refers to
Stored(addr) == [fresh |-> FALSE, addr |-> addr, m |-> EmptyMap]
Fresh(m) == [fresh |-> TRUE, addr |-> 0, m |-> m]

RECURSIVE AnnotateLoop(_, _, _, _)
\* the loop over e.inners(): h is the heap so far, out the slice so far
AnnotateLoop(errs, i, h, out) ==
    IF i > Len(errs) THEN [panic |-> FALSE, heap |-> h, out |-> out]
    ELSE LET err == errs[i]
         IN  IF IsDropboxError(err)
             THEN LET loc == Location(GetStack(err))
                      msg == StrVal(NodeGetMessage(err))
                      addr == GetState(err)
                  IN  IF loc.panic
                      THEN [panic |-> TRUE, heap |-> h, out |-> out]
                      ELSE IF addr = NilMap
                      THEN AnnotateLoop(errs, i + 1, h,
                              Append(out, Fresh(MapPut(MapPut(EmptyMap,
                                  "_location", StrVal(loc.val)),
                                  "_message", msg))))
                      ELSE AnnotateLoop(errs, i + 1,
                              [h EXCEPT ![addr] = MapPut(MapPut(@,
                                  "_location", StrVal(loc.val)),
                                  "_message", msg)],
                              Append(out, Stored(addr)))
             ELSE AnnotateLoop(errs, i + 1, h,
                      Append(out, Fresh(MapPut(EmptyMap, "_message",
                                               StrVal(ForeignError(err))))))

GetAnnotatedStates(e) == AnnotateLoop(inners(e), 1, heap, <<>>)

(***************************************************************************)
(* DefaultError and fillErrorInfo.                                         *)
(***************************************************************************)
RECURSIVE JsonEscape(_)
\* the body of a JSON string
JsonEscape(s) ==
    IF s = <<>> THEN <<>>
    ELSE LET c == Head(s)
         IN  (IF c = "\"" THEN <<"\\", "\"">>
              ELSE IF c = "\\" THEN <<"\\", "\\">>
              ELSE IF c = NL THEN <<"\\", "n">>
              ELSE IF c = TAB THEN <<"\\", "t">>
              ELSE <<c>>) \o JsonEscape(Tail(s))

JsonString(s) == <<"\"">> \o JsonEscape(s) \o <<"\"">>

RECURSIVE JsonMembers(_, _)
JsonMembers(m, keys) ==
    IF keys = <<>> THEN <<>>
    ELSE IF Head(keys) \in DOMAIN m
    THEN <<JsonString(KeyText(Head(keys))) \o <<":">>
             \o JsonString(m[Head(keys)].v)>> \o JsonMembers(m, Tail(keys))
    ELSE JsonMembers(m, Tail(keys))

UnsupportedTypeText == <<"j", "s", "o", "n", ":", " ", "u", "n", "s", "u", "p", "p", "o", "r", "t", "e", "d", " ", "t", "y", "p", "e", ":", " ", "c", "h", "a", "n", " ", "i", "n", "t">>

\* json.Marshal of a state: null for the nil map, an object with its keys
\* sorted otherwise, an error for a value that cannot be encoded
JsonMarshal(addr) ==
    IF addr = NilMap THEN [err |-> FALSE, text |-> <<"n", "u", "l", "l">>]
    ELSE IF \E k \in DOMAIN heap[addr] : heap[addr][k].t = "chan"
    THEN [err |-> TRUE, text |-> UnsupportedTypeText]
    ELSE [err |-> FALSE,
          text |-> <<"{">> \o StringsJoin(JsonMembers(heap[addr], SortedKeys),
                                          <<",">>) \o <<"}">>]

\* the state line of fillErrorInfo: the encoding, or the encoder's error
StateLine(err) == JsonMarshal(GetState(err)).text

RECURSIVE fillErrorInfoFirstStack(_, _, _)
\* fillErrorInfo keeping the first stack it meets, the outermost one
fillErrorInfoFirstStack(err, errLines, origStack) ==
    IF err = NilErr THEN [errLines |-> errLines, origStack |-> origStack]
    ELSE IF IsDropboxError(err)
    THEN fillErrorInfoFirstStack(GetInner(err),
            errLines \o <<NodeGetMessage(err), StateLine(err)>>,
            IF Len(errLines) = 1 THEN GetStack(err) ELSE origStack)
    ELSE [errLines |-> Append(errLines, ForeignError(err)),
          origStack |-> origStack]

RECURSIVE fillErrorInfo(_, _, _)
\* errLines and origStack are the two out parameters
fillErrorInfo(err, errLines, origStack) ==
    IF err = NilErr THEN [errLines |-> errLines, origStack |-> origStack]
    ELSE IF IsDropboxError(err)
    THEN fillErrorInfo(GetInner(err),
                       errLines \o <<NodeGetMessage(err), StateLine(err)>>,
                       GetStack(err))
    ELSE [errLines |-> Append(errLines, ForeignError(err)),
          origStack |-> origStack]

ErrorHeader == <<"E", "R", "R", "O", "R", ":">>
StackHeader == <<"O", "R", "I", "G", "I", "N", "A", "L", " ", "S", "T", "A", "C", "K", " ", "T", "R", "A", "C", "E", ":">>

\* the lines DefaultError joins
DefaultErrorLines(e) ==
    LET info == fillErrorInfo(e, <<ErrorHeader>>, <<>>)
    IN  info.errLines \o <<<<>>, StackHeader, info.origStack>>

DefaultError(e) == StringsJoin(DefaultErrorLines(e), <<NL>>)

(***************************************************************************)
(* The operations on the chain.  The runtime's trace at a constructor call *)
(* is an input: a header line, the three frames of stackTrace, StackTrace  *)
(* and the constructor, then the caller's frames.                          *)
(***************************************************************************)
LibFrames == <<NL, "f", NL, TAB, "l", NL, "f", NL, TAB, "l", NL, "f", NL, TAB, "l">>
\* the trace at the call site of New and at the call site of Wrap
TraceAtNew == <<"g">> \o LibFrames \o <<NL, "m", NL, TAB, "p", NL>>
TraceAtWrap == <<"g">> \o LibFrames \o <<NL, "n", NL, TAB, "q", NL, NL, "c">>

\* stacks given to the exported field Stack in a composite literal
LiteralStacks == { <<"p">>, <<"g", NL, "p">>, <<"g", NL, "m", NL, SP, "r", NL, "s">> }

Msgs == { <<"a">>, <<"b">>, <<"c">> }
StateMsgs == { <<"a">>, <<"b">> }

\* maps a caller builds before SetState
MapLiterals ==
    { MapPut(EmptyMap, "k", StrVal(<<"v">>)), MapPut(EmptyMap, "k", ChanVal) }

NodeIds == 1..Len(nodes)
ErrorValues ==
    {NilErr} \cup {Dbe(i) : i \in NodeIds} \cup {ForeignErr(j) : j \in ForeignIds}
\* the errors given to Wrap
WrapArgs == {NilErr, ForeignErr(1)} \cup {Dbe(i) : i \in NodeIds}

NewNode(msg, trace, inner) ==
    LET st == StackTrace(trace)
    IN  [Msg |-> msg, Stack |-> st.current, Context |-> st.context,
         State |-> NilMap, inner |-> inner]

New(bound, msgs, trace) ==
    \E msg \in msgs :
        /\ Len(nodes) < bound
        /\ nodes' = Append(nodes, NewNode(msg, trace, NilErr))
        /\ ret' = [op |-> "New", self |-> Dbe(Len(nodes) + 1)]
        /\ UNCHANGED <<heap, idxIn, idxOut, stIn, stOut>>

Wrap(bound, msgs, trace) ==
    \E err \in WrapArgs, msg \in msgs :
        /\ Len(nodes) < bound
        /\ nodes' = Append(nodes, NewNode(msg, trace, err))
        /\ ret' = [op |-> "Wrap", self |-> Dbe(Len(nodes) + 1)]
        /\ UNCHANGED <<heap, idxIn, idxOut, stIn, stOut>>

\* &DropboxBaseError{Msg: msg, Stack: stack}: the unexported inner stays nil
Literal(bound, msgs) ==
    \E msg \in msgs, stack \in LiteralStacks :
        /\ Len(nodes) < bound
        /\ nodes' = Append(nodes, [Msg |-> msg, Stack |-> stack,
                                   Context |-> <<>>, State |-> NilMap,
                                   inner |-> NilErr])
        /\ ret' = [op |-> "Literal", self |-> Dbe(Len(nodes) + 1)]
        /\ UNCHANGED <<heap, idxIn, idxOut, stIn, stOut>>

\* the caller makes a map
MakeMap(bound) ==
    \E m \in MapLiterals :
        /\ Len(heap) < bound
        /\ heap' = Append(heap, m)
        /\ ret' = [op |-> "MakeMap", addr |-> Len(heap) + 1]
        /\ UNCHANGED <<nodes, idxIn, idxOut, stIn, stOut>>

SetState ==
    \E i \in NodeIds, s \in {NilMap} \cup (1..Len(heap)) :
        /\ nodes' = [nodes EXCEPT ![i].State = s]
        /\ ret' = [op |-> "SetState", self |-> Dbe(i)]
        /\ UNCHANGED <<heap, idxIn, idxOut, stIn, stOut>>

CallGetMessage ==
    \E err \in ErrorValues :
        /\ ret' = [op |-> "GetMessage", self |-> err, val |-> GetMessage(err)]
        /\ UNCHANGED <<nodes, heap, idxIn, idxOut, stIn, stOut>>

CallHasInner ==
    \E i \in NodeIds, target \in ErrorValues :
        /\ ret' = [op |-> "HasInner", self |-> Dbe(i), target |-> target,
                   val |-> HasInner(Dbe(i), target)]
        /\ UNCHANGED <<nodes, heap, idxIn, idxOut, stIn, stOut>>

CallGetAnnotatedStates ==
    \E i \in NodeIds :
        LET r == GetAnnotatedStates(Dbe(i))
        IN  /\ heap' = r.heap
            /\ ret' = [op |-> "GetAnnotatedStates", self |-> Dbe(i),
                       panic |-> r.panic, out |-> r.out]
            /\ UNCHANGED <<nodes, idxIn, idxOut, stIn, stOut>>

CallError ==
    \E i \in NodeIds :
        /\ ret' = [op |-> "Error", self |-> Dbe(i),
                   val |-> DefaultError(Dbe(i))]
        /\ UNCHANGED <<nodes, heap, idxIn, idxOut, stIn, stOut>>

\* the values of the variables before anything happened
NoNodes == <<>>
NoHeap == <<>>
NoRet == [op |-> "none"]
NoIdxIn == [s |-> <<>>, sep |-> <<>>, n |-> 0]
NoIdxOut == [done |-> FALSE]
NoStIn == [trace |-> <<>>, skip |-> 0]
NoStOut == [done |-> FALSE]

Init ==
    /\ nodes = NoNodes /\ heap = NoHeap /\ ret = NoRet
    /\ idxIn = NoIdxIn /\ idxOut = NoIdxOut
    /\ stIn = NoStIn /\ stOut = NoStOut

\* building chains and reading them
Next ==
    \/ New(MaxNodes, Msgs, TraceAtNew)
    \/ Wrap(MaxNodes, Msgs, TraceAtNew)
    \/ CallGetMessage
    \/ CallHasInner

Spec == Init /\ [][Next]_vars

\* chains with states, annotated and rendered
NextStates ==
    \/ New(MaxStateNodes, StateMsgs, TraceAtNew)
    \/ Wrap(MaxStateNodes, StateMsgs, TraceAtWrap)
    \/ Literal(MaxStateNodes, StateMsgs)
    \/ MakeMap(MaxMaps)
    \/ SetState
    \/ CallGetAnnotatedStates
    \/ CallError

SpecStates == Init /\ [][NextStates]_vars

\* chains with states, rendered
NextRender ==
    \/ New(MaxRenderNodes, StateMsgs, TraceAtNew)
    \/ Wrap(MaxRenderNodes, StateMsgs, TraceAtWrap)
    \/ MakeMap(MaxRenderMaps)
    \/ SetState
    \/ CallError

SpecRender == Init /\ [][NextRender]_vars

(***************************************************************************)
(* The two pure functions, each called once on inputs drawn by Init.       *)
(***************************************************************************)
StringsUpTo(alphabet, n) == UNION {[1..k -> alphabet] : k \in 0..n}

\* the text and the separator of TestIndexNth
TestStr == <<"t", "e", "s", "t", "i", "n", "g", " ", "\n", "S", "t", "r", "i", "n", "g", " ", "\n", "a", "b", "c", " ", "t", "e", "s", "t", "i", "n", "g", ",", " ", "a", "b", "c", "\n", " ", "a", "g", "a", "i", "n">>

IdxAlphabet == {"a", "b"}
IdxTexts == StringsUpTo(IdxAlphabet, MaxStrLen) \cup {TestStr}
IdxSeps == StringsUpTo(IdxAlphabet, MaxSepLen) \cup {<<NL>>, <<TAB>>}


InitIndexNth ==
    /\ idxIn \in [s : IdxTexts, sep : IdxSeps, n : (-1)..(MaxN + 1)]
    /\ idxOut = NoIdxOut
    /\ nodes = NoNodes /\ heap = NoHeap /\ ret = NoRet
    /\ stIn = NoStIn /\ stOut = NoStOut

CallIndexNth ==
    /\ ~idxOut.done
    /\ idxOut' = [done |-> TRUE, r |-> IndexNth(idxIn.s, idxIn.sep, idxIn.n)]
    /\ UNCHANGED <<nodes, heap, ret, idxIn, stIn, stOut>>

NextIndexNth == CallIndexNth

SpecIndexNth == InitIndexNth /\ [][NextIndexNth]_vars

TraceAlphabet == {NL, "x"}
TraceTexts == StringsUpTo(TraceAlphabet, MaxTraceLen) \ {<<>>}

InitStackTrace ==
    /\ stIn \in [trace : TraceTexts, skip : 0..MaxSkip]
    /\ stOut = NoStOut
    /\ nodes = NoNodes /\ heap = NoHeap /\ ret = NoRet
    /\ idxIn = NoIdxIn /\ idxOut = NoIdxOut

CallStackTrace ==
    /\ ~stOut.done
    /\ stOut' = [done |-> TRUE, r |-> stackTrace(stIn.trace, stIn.skip)]
    /\ UNCHANGED <<nodes, heap, ret, idxIn, idxOut, stIn>>

NextStackTrace == CallStackTrace

SpecStackTrace == InitStackTrace /\ [][NextStackTrace]_vars

(***************************************************************************)
(* Claims about IndexNth.                                                  *)
(***************************************************************************)
RECURSIVE RefScan(_, _, _)
\* reference scan: the offsets of the occurrences of a non-empty sep in s
\* from offset from on, left to right, each search resuming after the end
\* of the occurrence before it
RefScan(s, sep, from) ==
    LET i == StringsIndex(Slice(s, from, Len(s)), sep)
    IN  IF i = -1 THEN <<>>
        ELSE <<from + i>> \o RefScan(s, sep, from + i + Len(sep))

IdxOcc == RefScan(idxIn.s, idxIn.sep, 0)
NotFound == [panic |-> FALSE, val |-> -1]
TooFew == [panic |-> FALSE, val |-> -2]

\* C6: when the non-empty sep occurs at least n >= 1 times in s, IndexNth
\* returns the offset of the n-th occurrence of the reference left-to-right
\* non-overlapping scan.
C6_NthOccurrence ==
    (idxOut.done /\ idxIn.sep # <<>> /\ idxIn.n >= 1 /\ Len(IdxOcc) >= idxIn.n)
        => idxOut.r = [panic |-> FALSE, val |-> IdxOcc[idxIn.n]]

\* C7: IndexNth(s, sep, 1) is -1 exactly when sep does not occur in s, or s
\* is empty, or sep is empty.
C7_NotFoundIff ==
    (idxOut.done /\ idxIn.n = 1)
        => ((idxOut.r = NotFound)
              <=> (\/ idxIn.sep = <<>>
                   \/ idxIn.s = <<>>
                   \/ StringsIndex(idxIn.s, idxIn.sep) = -1))

\* C8: IndexNth never fails, and when sep occurs exactly k >= 1 times and
\* n > k it returns -2, which is not the not-found value -1.
C8_TooFew ==
    idxOut.done
        => /\ ~idxOut.r.panic
           /\ (idxIn.sep # <<>> /\ Len(IdxOcc) >= 1 /\ idxIn.n > Len(IdxOcc))
                 => (idxOut.r = TooFew /\ TooFew # NotFound)

(***************************************************************************)
(* Claim about stackTrace.                                                 *)
(***************************************************************************)
\* offsets of the newlines of the trace
NewlinesOf(text) == {p \in 0..(Len(text) - 1) : text[p + 1] = NL}

StHeaderEnd ==
    IF NewlinesOf(stIn.trace) = {} THEN Len(stIn.trace)
    ELSE Min(NewlinesOf(stIn.trace))

\* newlines after the header's newline
StLater == {p \in NewlinesOf(stIn.trace) : p > StHeaderEnd}

\* the newline with 2*skip newlines from the header's on before it
StStart ==
    IF stIn.skip = 0 THEN StHeaderEnd
    ELSE IF Cardinality(StLater) < 2 * stIn.skip THEN Len(stIn.trace)
    ELSE CHOOSE p \in StLater :
            Cardinality({q \in StLater : q <= p}) = 2 * stIn.skip

\* the first newline after start that directly follows a newline
StEnd ==
    LET ends == {p \in NewlinesOf(stIn.trace) :
                    p > StStart /\ (p - 1) \in NewlinesOf(stIn.trace)}
    IN  IF ends = {} THEN Len(stIn.trace) ELSE Min(ends)

\* C9: stackTrace returns without failure; current is the header line
\* followed by the text from start to end and context is the text from end
\* on, where start is the newline 2*skip line boundaries after the header's
\* (the end of the text when there are fewer) and end the first newline
\* after start that directly follows a newline (the end of the text when
\* there is none); current followed by context is the trace without the
\* 2*skip skipped lines, and a skip beyond the available lines leaves the
\* header alone and an empty context.
C9_StackTraceSplit ==
    stOut.done =>
        LET text == stIn.trace
            header == Slice(text, 0, StHeaderEnd)
        IN  /\ ~stOut.r.panic
            /\ stOut.r.current = header \o Slice(text, StStart, StEnd)
            /\ stOut.r.context = Slice(text, StEnd, Len(text))
            /\ stOut.r.current \o stOut.r.context
                    = header \o Slice(text, StStart, Len(text))
            /\ StStart < Len(text)
                 => Cardinality(NewlinesOf(Slice(text, StHeaderEnd, StStart)))
                        = 2 * stIn.skip
            /\ Cardinality(StLater) < 2 * stIn.skip
                 => (stOut.r.current = header /\ stOut.r.context = <<>>)

\* a call that skipped a frame, kept a frame and split off a context
C9_Witness ==
    /\ stOut.done
    /\ stIn.skip >= 1
    /\ StStart < StEnd
    /\ StEnd < Len(stIn.trace)
    /\ Len(stOut.r.current) > StHeaderEnd + 1
    /\ stOut.r.context # <<>>

(***************************************************************************)
(* Claims about the chain.                                                 *)
(***************************************************************************)
RECURSIVE RefChain(_)
\* the chain of an error, outermost first: the annotated nodes linked by
\* their inner fields, then the foreign error the innermost one wraps, if any
RefChain(err) ==
    IF err.kind = "dbe" THEN <<err>> \o RefChain(nodes[err.id].inner)
    ELSE IF err.kind = "foreign" THEN <<err>>
    ELSE <<>>

\* the own message of a chain element: Msg of a node, the text of a foreign error
OwnMessage(err) ==
    IF err.kind = "dbe" THEN nodes[err.id].Msg ELSE ForeignText(err.id)

RECURSIVE OffsetOf(_, _)
\* where piece i starts in the pieces laid out with one separator between them
OffsetOf(pieces, i) ==
    IF i = 1 THEN 0 ELSE OffsetOf(pieces, i - 1) + Len(pieces[i - 1]) + 1

\* text is the pieces in order with exactly one sep between neighbours
IsJoined(text, pieces, sep) ==
    /\ Len(text) = OffsetOf(pieces, Len(pieces) + 1) - 1
    /\ \A i \in 1..Len(pieces) :
          /\ Slice(text, OffsetOf(pieces, i),
                   OffsetOf(pieces, i) + Len(pieces[i])) = pieces[i]
          /\ i < Len(pieces) => text[OffsetOf(pieces, i + 1)] = sep

\* C1: GetMessage of an annotated error is the own messages of its chain,
\* outermost first, joined by exactly one space; a foreign error the
\* innermost node wraps gives its text once, as the last piece.
C1_MessageJoined ==
    (ret.op = "GetMessage" /\ ret.self.kind = "dbe")
        => LET chain == RefChain(ret.self)
           IN  IsJoined(ret.val, [i \in 1..Len(chain) |-> OwnMessage(chain[i])], SP)

\* GetMessage of Wrap(Wrap(Wrap(foreign, "a"), "b"), "c")
C1_Witness ==
    /\ ret.op = "GetMessage"
    /\ ret.self.kind = "dbe"
    /\ Len(RefChain(ret.self)) = 4
    /\ ret.val = <<"c", SP, "b", SP, "a", SP, "x">>

\* C2: e.HasInner(target) is true exactly when target is an element of e's
\* chain, e included; nil and errors outside the chain give false.
C2_HasInnerIff ==
    ret.op = "HasInner"
        => (ret.val <=> \E i \in 1..Len(RefChain(ret.self)) :
                            RefChain(ret.self)[i] = ret.target)

\* HasInner found the error two levels down
C2_Witness ==
    /\ ret.op = "HasInner"
    /\ ret.val
    /\ Len(RefChain(ret.self)) >= 3
    /\ ret.target = RefChain(ret.self)[3]

\* the map an element of the slice returned by GetAnnotatedStates refers to
MapOf(item) == IF item.fresh THEN item.m ELSE heap[item.addr]

\* C3: GetAnnotatedStates returns one map per chain element, outermost
\* first, and the _message of the map at each position is the own message
\* of the element at that position.
C3_OneMapPerNode ==
    (ret.op = "GetAnnotatedStates" /\ ~ret.panic)
        => LET chain == RefChain(ret.self)
           IN  /\ Len(ret.out) = Len(chain)
               /\ \A i \in 1..Len(chain) :
                     /\ "_message" \in DOMAIN MapOf(ret.out[i])
                     /\ MapOf(ret.out[i])["_message"] = StrVal(OwnMessage(chain[i]))

\* C4: a GetAnnotatedStates call leaves the stored state of every node of
\* the chain as it was: absent stays absent, a set state keeps its keys and
\* values.
C4_ReadOnly ==
    [][ret'.op = "GetAnnotatedStates"
         => \A i \in 1..Len(RefChain(ret'.self)) :
               LET err == RefChain(ret'.self)[i]
               IN  err.kind = "dbe"
                     => /\ nodes'[err.id].State = nodes[err.id].State
                        /\ nodes[err.id].State # NilMap
                             => heap'[nodes[err.id].State] = heap[nodes[err.id].State]]_vars

\* the line of the stack the claim names: the third line when the stack has
\* at least three newlines, the last line otherwise
ClaimedLine(stack) ==
    LET nls == NewlinesOf(stack)
        nth(k) == CHOOSE p \in nls : Cardinality({q \in nls : q <= p}) = k
    IN  IF Cardinality(nls) >= 3 THEN Slice(stack, nth(2) + 1, nth(3))
        ELSE IF nls = {} THEN stack
        ELSE Slice(stack, Max(nls) + 1, Len(stack))

\* C10: GetAnnotatedStates returns normally whatever stack a node holds,
\* and _location is the trimmed third line of the stack, or its trimmed
\* last line when the stack has fewer than three newlines.
C10_LocationOfAnyStack ==
    ret.op = "GetAnnotatedStates"
        => /\ ~ret.panic
           /\ \A i \in 1..Len(ret.out) :
                 LET err == RefChain(ret.self)[i]
                 IN  err.kind = "dbe"
                       => MapOf(ret.out[i])["_location"]
                             = StrVal(StringsTrimSpace(ClaimedLine(nodes[err.id].Stack)))

RECURSIVE LinesText(_)
\* the lines, each ended by a newline
LinesText(lines) ==
    IF lines = <<>> THEN <<>> ELSE Head(lines) \o <<NL>> \o LinesText(Tail(lines))

\* the nodes of a chain that are annotated errors
Annotated(chain) == SelectSeq(chain, LAMBDA err : err.kind = "dbe")

\* the lines a chain element is rendered as
RenderedAs(err) ==
    IF err.kind = "dbe" THEN <<nodes[err.id].Msg, StateLine(err)>>
    ELSE <<ForeignText(err.id)>>

RECURSIVE Flatten(_)
Flatten(seqs) == IF seqs = <<>> THEN <<>> ELSE Head(seqs) \o Flatten(Tail(seqs))

\* C5: Error() is the line "ERROR:", then for each annotated node, outermost
\* first, its message line and its state line (a foreign error gives its
\* text line and ends the walk), then an empty line, the line
\* "ORIGINAL STACK TRACE:" and, as the rest of the text, the stack of the
\* innermost annotated node.
C5_Rendering ==
    ret.op = "Error"
        => LET chain == RefChain(ret.self)
               ann == Annotated(chain)
               body == Flatten([i \in 1..Len(chain) |-> RenderedAs(chain[i])])
               innermost == ann[Len(ann)]
           IN  ret.val = LinesText(<<ErrorHeader>> \o body \o <<<<>>, StackHeader>>)
                            \o nodes[innermost.id].Stack

\* Error() of two annotated nodes around a foreign error, a state set
C5_Witness ==
    /\ ret.op = "Error"
    /\ Len(RefChain(ret.self)) = 3
    /\ Len(Annotated(RefChain(ret.self))) = 2
    /\ \E i \in 1..2 : nodes[RefChain(ret.self)[i].id].State # NilMap

====
